---- MODULE Spec2Model ----
(***************************************************************************)
(* Musico: the client-side playback session, the coin ledger and the       *)
(* social writes of the music-streaming client, as a state machine.        *)
(*                                                                         *)
(* The repository holds three versions of the client (src/App.tsx,         *)
(* src/unnamed/part_000, src/unnamed/part_001).  The variable "variant"    *)
(* names the version that runs; it is fixed by Init and every handler is   *)
(* translated per version where the versions differ.                       *)
(*                                                                         *)
(* Client state is keyed by client (one running App component per          *)
(* client).  A client whose user is NoUser shows the AuthScreen and none   *)
(* of its handlers can be invoked (App.tsx:232).                           *)
(***************************************************************************)
EXTENDS Integers, Sequences, FiniteSets, TLC

\* ---------------------------------------------------------------- bounds
\* Number of async handlers one client may have in flight at once.
MaxTasks == 2
\* Largest value of the wall clock (Date.now()).
MaxClock == 1
\* coin writes the store may take on one account in a run
MaxSpends == 2
\* Most play() promises one audio element may have pending.
MaxPending == 2
\* user-record subscriptions one client may hold on one account
MaxListeners == 2

\* ---------------------------------------------------------------- constants of the program
Variants == {"App", "part_000", "part_001"}
Clients == {"c1", "c2"}
Users == {"A", "B"}
Tracks == {"t1", "t2"}
NoUser == "none"
NoSong == "nosong"
NoData == [uid |-> NoUser]

\* coins granted at sign-up
InitialCoins == 20
\* cost of a dedication
GiftCost == 5
\* cost of the premium upgrade
UpgradeCost == 100

\* cost of an offline download: 5 in App.tsx and part_000, 2 in part_001
DownloadCost(v) == IF v = "part_001" THEN 2 ELSE 5

VARIABLES
  variant,        \* the version of the client that runs
  now,            \* the wall clock, Date.now()
  \* ---- per client: the App component
  user,           \* user[c]: the signed-in account (useState user)
  userData,       \* userData[c]: last synchronized copy of the user record
  listeners,      \* listeners[c][u]: active onSnapshot subscriptions of c on users/u
  currentSong,    \* currentSong[c]
  isPlaying,      \* isPlaying[c]
  toastMsg,       \* toastMsg[c]: the last notice handed to setToastMsg
  audio,          \* audio[c]: the <audio> element behind audioRef
  mediaHandlers,  \* mediaHandlers[c]: media-session action handlers are registered
  lastPlayed,     \* lastPlayed[c]: the localStorage key of the last played song
  playLog,        \* playLog[c]: the last handlePlay calls (observation only)
  offline,        \* offline[c][t]: what the Local Offline Cache holds under track id t
  inbox,          \* inbox[c]: ProfileScreen's dedications state
  tasks,          \* tasks[c]: the async handlers in flight, oldest pending write first
  \* ---- the remote document store
  users,          \* users[u]: the document users/u
  dedications,    \* the dedications collection, in append order
  playlists       \* playlists[p]: the songIds of the document playlists/p

vars == << variant, now, user, userData, listeners, currentSong, isPlaying, toastMsg, audio,
           mediaHandlers, lastPlayed, playLog, offline, inbox, tasks,
           users, dedications, playlists >>

playVars == << currentSong, isPlaying, audio, mediaHandlers, lastPlayed, playLog >>
ledgerVars == << now, userData, offline, inbox, tasks, users, dedications >>

\* ================================================================ the audio device
\* The <audio> element, as the HTML standard defines the calls the client makes:
\*   src      the bound stream (a track, its url), NoSong when none was ever set
\*   paused   the element's paused attribute
\*   ready    "empty" no resource selected, "loading" the resource is being fetched,
\*            "ready" enough data to play, "error" the resource failed to load
\*   pending  the pending play() promises, oldest first, each named by the
\*            handlers the client attached: "new", "resume", "media"
NewAudio == [src |-> NoSong, paused |-> TRUE, ready |-> "empty", pending |-> << >>]

\* the device is audibly playing its source
DevicePlaying(a) == a.ready = "ready" /\ ~a.paused

\* What a device call hands back: the element after the call, and the promises
\* the call settled: a sequence of << kind, fulfilled >>.
Rejected(ps) == [i \in 1..Len(ps) |-> << ps[i], FALSE >>]
Resolved(ps) == [i \in 1..Len(ps) |-> << ps[i], TRUE >>]

\* audio.src = url and audio.load(): the media element load algorithm.  An element
\* that has selected a resource before is paused and its pending play promises
\* are rejected (AbortError); an element that never selected one keeps both.
AudioLoad(a, song) ==
  IF a.ready = "empty"
    THEN [el |-> [a EXCEPT !.src = song, !.ready = "loading"], settled |-> << >>]
    ELSE [el |-> [src |-> song, paused |-> TRUE, ready |-> "loading", pending |-> << >>],
          settled |-> Rejected(a.pending)]

\* audio.play(): the promise is fulfilled at once when the element can play,
\* rejected at once when its resource has failed, and pending otherwise.
AudioPlay(a, kind) ==
  CASE a.ready = "ready" ->
         [el |-> [a EXCEPT !.paused = FALSE, !.pending = << >>],
          settled |-> Resolved(Append(a.pending, kind))]
    [] a.ready = "error" ->
         [el |-> a, settled |-> << << kind, FALSE >> >>]
    [] OTHER ->
         [el |-> [a EXCEPT !.paused = FALSE, !.pending = Append(a.pending, kind)],
          settled |-> << >>]

\* audio.pause(): pending play promises are rejected (AbortError).
AudioPause(a) ==
  IF a.paused
    THEN [el |-> a, settled |-> << >>]
    ELSE [el |-> [a EXCEPT !.paused = TRUE, !.pending = << >>],
          settled |-> Rejected(a.pending)]

\* ================================================================ promise handlers of handlePlay
\* The state the promise callbacks of handlePlay write: isPlaying and the toast.
\* One settled promise << kind, fulfilled >> under version v:
\*   "new"     App.tsx:173       .then(setIsPlaying(true)).catch(setIsPlaying(false))
\*             part_000:193-200  the same, the catch also toasts "Stream unavailable."
\*             part_001:162      .catch(console.error)
\*   "resume"  App.tsx:165       .catch(() => {})
\*             part_000:181-184  .catch: toast "Playback error. Check connection."
\*             part_001:155      no handler
\*   "media"   no handler in any version
PlayCallbackNoThen(v, s, p) ==
  LET kind == p[1]
      ok == p[2]
  IN CASE kind = "new" /\ v = "App" /\ ~ok ->
            [s EXCEPT !.isPlaying = FALSE]
       [] kind = "new" /\ v = "part_000" /\ ~ok ->
            [isPlaying |-> FALSE, toast |-> "Stream unavailable."]
       [] kind = "resume" /\ v = "part_000" /\ ~ok ->
            [s EXCEPT !.toast = "Playback error. Check connection."]
       [] OTHER -> s

PlayCallback(v, s, p) ==
  LET kind == p[1]
      ok == p[2]
  IN CASE kind = "new" /\ v = "App" ->
            [s EXCEPT !.isPlaying = ok]
       [] kind = "new" /\ v = "part_000" ->
            IF ok THEN [s EXCEPT !.isPlaying = TRUE]
                  ELSE [isPlaying |-> FALSE, toast |-> "Stream unavailable."]
       [] kind = "resume" /\ v = "part_000" /\ ~ok ->
            [s EXCEPT !.toast = "Playback error. Check connection."]
       [] OTHER -> s

RECURSIVE PlayCallbacks(_, _, _)
PlayCallbacks(v, s, ps) ==
  IF ps = << >> THEN s
  ELSE PlayCallbacks(v, PlayCallback(v, s, Head(ps)), Tail(ps))

\* ================================================================ the playback session
\* The session state a handlePlay call leaves, as the player UI shows it.
SessionState(playing, a) ==
  IF playing THEN "Playing"
  ELSE IF a.pending # << >> THEN "Loading"
  ELSE "Paused"

\* playLog keeps the last three handlePlay calls: the song, whether it was the
\* active track, whether a start request was pending, and the state the call left.
Logged(log, e) ==
  IF Len(log) < 3 THEN Append(log, e) ELSE Append(Tail(log), e)

\* handlePlay, same-track branch.
\*   App.tsx:160-167, part_000:176-186, part_001:153-155
HandlePlayToggle(c, song) ==
  LET a == audio[c]
      r == IF isPlaying[c] THEN AudioPause(a) ELSE AudioPlay(a, "resume")
      s0 == [isPlaying |-> ~isPlaying[c], toast |-> toastMsg[c]]
      s == PlayCallbacks(variant, s0, r.settled)
  IN /\ audio' = [audio EXCEPT ![c] = r.el]
     /\ isPlaying' = [isPlaying EXCEPT ![c] = s.isPlaying]
     /\ toastMsg' = [toastMsg EXCEPT ![c] = s.toast]
     /\ playLog' = [playLog EXCEPT ![c] =
            Logged(@, [song |-> song, active |-> TRUE, pendingBefore |-> a.pending # << >>,
                       st |-> SessionState(s.isPlaying, r.el)])]
     /\ UNCHANGED << currentSong, lastPlayed, mediaHandlers >>

\* handlePlay's new-track branch without setCurrentSong(song).
HandlePlayNewKeepCurrent(c, song) ==
  LET a == audio[c]
      r1 == AudioLoad(a, song)
      r2 == IF variant = "part_001" THEN [el |-> r1.el, settled |-> << >>]
                                    ELSE AudioLoad(r1.el, song)
      r3 == AudioPlay(r2.el, "new")
      s0 == [isPlaying |-> IF variant = "part_001" THEN TRUE ELSE isPlaying[c],
             toast |-> toastMsg[c]]
      s == PlayCallbacks(variant, s0, r1.settled \o r2.settled \o r3.settled)
  IN /\ lastPlayed' = [lastPlayed EXCEPT ![c] = song]
     /\ audio' = [audio EXCEPT ![c] = r3.el]
     /\ isPlaying' = [isPlaying EXCEPT ![c] = s.isPlaying]
     /\ toastMsg' = [toastMsg EXCEPT ![c] = s.toast]
     /\ mediaHandlers' = [mediaHandlers EXCEPT ![c] = TRUE]
     /\ playLog' = [playLog EXCEPT ![c] =
            Logged(@, [song |-> song, active |-> FALSE, pendingBefore |-> a.pending # << >>,
                       st |-> SessionState(s.isPlaying, r3.el)])]
     /\ UNCHANGED currentSong

\* handlePlay, new-track branch.
\*   App.tsx:169-174 and part_000:188-202: src, load(), play() with then/catch
\*   part_001:157-164: setIsPlaying(true), src, play() with catch
HandlePlayNew(c, song) ==
  LET a == audio[c]
      r1 == AudioLoad(a, song)
      r2 == IF variant = "part_001" THEN [el |-> r1.el, settled |-> << >>]
                                    ELSE AudioLoad(r1.el, song)
      r3 == AudioPlay(r2.el, "new")
      s0 == [isPlaying |-> IF variant = "part_001" THEN TRUE ELSE isPlaying[c],
             toast |-> toastMsg[c]]
      s == PlayCallbacks(variant, s0, r1.settled \o r2.settled \o r3.settled)
  IN /\ currentSong' = [currentSong EXCEPT ![c] = song]
     /\ lastPlayed' = [lastPlayed EXCEPT ![c] = song]
     /\ audio' = [audio EXCEPT ![c] = r3.el]
     /\ isPlaying' = [isPlaying EXCEPT ![c] = s.isPlaying]
     /\ toastMsg' = [toastMsg EXCEPT ![c] = s.toast]
     /\ mediaHandlers' = [mediaHandlers EXCEPT ![c] = TRUE]
     /\ playLog' = [playLog EXCEPT ![c] =
            Logged(@, [song |-> song, active |-> FALSE, pendingBefore |-> a.pending # << >>,
                       st |-> SessionState(s.isPlaying, r3.el)])]

\* handlePlay(song): App.tsx:158-176, part_000:173-204, part_001:152-166.
\* The player UI, and with it the <audio> element, exists while a user is signed in.
HandlePlay(c, song) ==
  /\ user[c] # NoUser
  /\ Len(audio[c].pending) < MaxPending
  /\ IF currentSong[c] = song THEN HandlePlayToggle(c, song) ELSE HandlePlayNew(c, song)
  /\ UNCHANGED << variant, user, listeners, playlists >>
  /\ UNCHANGED ledgerVars

\* The device has fetched enough of its source to play: pending play promises are
\* fulfilled when the element is not paused.
DeviceLoaded(c) ==
  LET a == audio[c]
      done == IF a.paused THEN << >> ELSE Resolved(a.pending)
      s == PlayCallbacks(variant, [isPlaying |-> isPlaying[c], toast |-> toastMsg[c]], done)
  IN /\ user[c] # NoUser
     /\ a.ready = "loading"
     /\ a.src # NoSong
     /\ audio' = [audio EXCEPT ![c] =
            [a EXCEPT !.ready = "ready", !.pending = IF a.paused THEN a.pending ELSE << >>]]
     /\ isPlaying' = [isPlaying EXCEPT ![c] = s.isPlaying]
     /\ toastMsg' = [toastMsg EXCEPT ![c] = s.toast]
     /\ UNCHANGED << variant, user, listeners, playlists, currentSong, lastPlayed, mediaHandlers, playLog >>
     /\ UNCHANGED ledgerVars

\* <audio onError>: part_000:298-301 only.
OnError(v, s) ==
  IF v = "part_000" THEN [isPlaying |-> FALSE, toast |-> "Audio stream error."] ELSE s

\* The device could not load its source: the error event fires, then the pending
\* play promises are rejected (NotSupportedError).
DeviceLoadFailed(c) ==
  LET a == audio[c]
      s0 == OnError(variant, [isPlaying |-> isPlaying[c], toast |-> toastMsg[c]])
      s == PlayCallbacks(variant, s0, Rejected(a.pending))
  IN /\ user[c] # NoUser
     /\ a.ready = "loading"
     /\ audio' = [audio EXCEPT ![c] = [a EXCEPT !.ready = "error", !.pending = << >>]]
     /\ isPlaying' = [isPlaying EXCEPT ![c] = s.isPlaying]
     /\ toastMsg' = [toastMsg EXCEPT ![c] = s.toast]
     /\ playLog' = [playLog EXCEPT ![c] = << >>]
     /\ UNCHANGED << variant, user, listeners, playlists, currentSong, lastPlayed, mediaHandlers >>
     /\ UNCHANGED ledgerVars

\* play() on an element that has no source: browsers that reject such a request
\* do it here; the others leave the promise pending.
DeviceNoSource(c) ==
  LET a == audio[c]
      s == PlayCallbacks(variant, [isPlaying |-> isPlaying[c], toast |-> toastMsg[c]],
                         Rejected(a.pending))
  IN /\ user[c] # NoUser
     /\ a.ready = "empty"
     /\ a.pending # << >>
     /\ audio' = [audio EXCEPT ![c] = [a EXCEPT !.pending = << >>]]
     /\ isPlaying' = [isPlaying EXCEPT ![c] = s.isPlaying]
     /\ toastMsg' = [toastMsg EXCEPT ![c] = s.toast]
     /\ playLog' = [playLog EXCEPT ![c] = << >>]
     /\ UNCHANGED << variant, user, listeners, playlists, currentSong, lastPlayed, mediaHandlers >>
     /\ UNCHANGED ledgerVars

DeviceEndedKeepFlag(c) ==
  /\ user[c] # NoUser
  /\ DevicePlaying(audio[c])
  /\ audio' = [audio EXCEPT ![c] = [@ EXCEPT !.paused = TRUE]]
  /\ playLog' = [playLog EXCEPT ![c] = << >>]
  /\ UNCHANGED << variant, user, listeners, playlists, currentSong, lastPlayed, mediaHandlers, toastMsg,
                  isPlaying >>
  /\ UNCHANGED ledgerVars

\* <audio onEnded>: App.tsx:236, part_000:294, part_001:231.  The element pauses
\* itself at the end of its source and fires ended.
DeviceEnded(c) ==
  /\ user[c] # NoUser
  /\ DevicePlaying(audio[c])
  /\ audio' = [audio EXCEPT ![c] = [@ EXCEPT !.paused = TRUE]]
  /\ isPlaying' = [isPlaying EXCEPT ![c] = FALSE]
  /\ playLog' = [playLog EXCEPT ![c] = << >>]
  /\ UNCHANGED << variant, user, listeners, playlists, currentSong, lastPlayed, mediaHandlers, toastMsg >>
  /\ UNCHANGED ledgerVars

\* The platform's media-session play control: App.tsx:99, part_000:106-111, part_001:100.
MediaPlay(c) ==
  LET r == AudioPlay(audio[c], "media")
      s == PlayCallbacks(variant, [isPlaying |-> TRUE, toast |-> toastMsg[c]], r.settled)
  IN /\ user[c] # NoUser
     /\ mediaHandlers[c]
     /\ Len(audio[c].pending) < MaxPending
     /\ audio' = [audio EXCEPT ![c] = r.el]
     /\ isPlaying' = [isPlaying EXCEPT ![c] = s.isPlaying]
     /\ toastMsg' = [toastMsg EXCEPT ![c] = s.toast]
     /\ playLog' = [playLog EXCEPT ![c] = << >>]
     /\ UNCHANGED << variant, user, listeners, playlists, currentSong, lastPlayed, mediaHandlers >>
     /\ UNCHANGED ledgerVars

\* The platform's media-session pause control: App.tsx:100, part_000:112-117, part_001:101.
MediaPause(c) ==
  LET r == AudioPause(audio[c])
      s == PlayCallbacks(variant, [isPlaying |-> FALSE, toast |-> toastMsg[c]], r.settled)
  IN /\ user[c] # NoUser
     /\ mediaHandlers[c]
     /\ audio' = [audio EXCEPT ![c] = r.el]
     /\ isPlaying' = [isPlaying EXCEPT ![c] = s.isPlaying]
     /\ toastMsg' = [toastMsg EXCEPT ![c] = s.toast]
     /\ playLog' = [playLog EXCEPT ![c] = << >>]
     /\ UNCHANGED << variant, user, listeners, playlists, currentSong, lastPlayed, mediaHandlers >>
     /\ UNCHANGED ledgerVars

\* ================================================================ the user record
\* The record AuthScreen.handleSubmit writes at sign-up:
\*   App.tsx:875-878, part_000:575-586, part_001:491-501
Genesis == [type |-> "earn", amount |-> InitialCoins, desc |-> "genesis", timestamp |-> 0]
NewUser(u) ==
  [uid |-> u, coins |-> InitialCoins, isPremium |-> FALSE, friends |-> {},
   likedSongs |-> << >>, coinHistory |-> << Genesis >>]

\* The last-played snapshot read at start: part_000:87-97, part_001:86-91.
\* App.tsx writes the key and never reads it.
Restored(v, saved) == IF v = "App" THEN NoSong ELSE saved

\* userData?.isPremium and userData?.coins < n, on a record that may be null.
IsPremium(ud) == ud # NoData /\ ud.isPremium
CoinsBelow(ud, n) == ud # NoData /\ ud.coins < n

\* ================================================================ remote writes
\* A write handed to the remote store and not yet acknowledged.
NoWrite == [kind |-> "none"]
IsWrite(w) == w.kind # "none"

TxWriteUnsigned(uid, amount, desc, type, clock) ==
  [kind |-> "tx", uid |-> uid, delta |-> amount,
   tx |-> [type |-> type, amount |-> amount, desc |-> desc, timestamp |-> clock]]

\* updateDoc(users/uid, {coins: increment(+-amount), coinHistory: arrayUnion(newTx)}):
\*   App.tsx:184-192, part_000:211-224, part_001:174-185.  newTx carries Date.now().
TxWrite(uid, amount, desc, type, clock) ==
  [kind |-> "tx", uid |-> uid,
   delta |-> IF type = "earn" THEN amount ELSE -amount,
   tx |-> [type |-> type, amount |-> amount, desc |-> desc, timestamp |-> clock]]

ArrayUnionAppend(arr, x) == Append(arr, x)

\* arrayUnion on an array field: the element is appended unless it is present.
ArrayUnion(arr, x) ==
  IF \E i \in 1..Len(arr) : arr[i] = x THEN arr ELSE Append(arr, x)

\* Array.filter(id => id !== x)
Without(arr, x) == SelectSeq(arr, LAMBDA y : y # x)

ApplyWriteReplaceHistory(us, w) ==
  CASE w.kind = "tx" ->
         [us EXCEPT ![w.uid].coins = @ + w.delta,
                    ![w.uid].coinHistory = << w.tx >>]
    [] w.kind = "likeAdd" ->
         [us EXCEPT ![w.uid].likedSongs = ArrayUnion(@, w.song)]
    [] w.kind = "likeSet" ->
         [us EXCEPT ![w.uid].likedSongs = w.list]
    [] w.kind = "friendAdd" ->
         [us EXCEPT ![w.uid].friends = @ \cup {w.friend}]
    [] w.kind = "premium" ->
         [us EXCEPT ![w.uid].isPremium = TRUE]
    [] OTHER -> us

ApplyWriteCoinsOnly(us, w) ==
  CASE w.kind = "tx" ->
         [us EXCEPT ![w.uid].coins = @ + w.delta]
    [] w.kind = "likeAdd" ->
         [us EXCEPT ![w.uid].likedSongs = ArrayUnion(@, w.song)]
    [] w.kind = "likeSet" ->
         [us EXCEPT ![w.uid].likedSongs = w.list]
    [] w.kind = "friendAdd" ->
         [us EXCEPT ![w.uid].friends = @ \cup {w.friend}]
    [] w.kind = "premium" ->
         [us EXCEPT ![w.uid].isPremium = TRUE]
    [] OTHER -> us

ApplyWriteGuarded(us, w) ==
  CASE w.kind = "tx" ->
         IF us[w.uid].coins + w.delta < 0 THEN us
         ELSE [us EXCEPT ![w.uid].coins = @ + w.delta,
                         ![w.uid].coinHistory = Append(@, w.tx)]
    [] w.kind = "likeAdd" ->
         [us EXCEPT ![w.uid].likedSongs = ArrayUnion(@, w.song)]
    [] w.kind = "likeSet" ->
         [us EXCEPT ![w.uid].likedSongs = w.list]
    [] w.kind = "friendAdd" ->
         [us EXCEPT ![w.uid].friends = @ \cup {w.friend}]
    [] w.kind = "premium" ->
         [us EXCEPT ![w.uid].isPremium = TRUE]
    [] OTHER -> us

\* The users collection after the store has applied write w.  Transaction records
\* carry a random id, so arrayUnion(newTx) always appends.
ApplyWrite(us, w) ==
  CASE w.kind = "tx" ->
         [us EXCEPT ![w.uid].coins = @ + w.delta,
                    ![w.uid].coinHistory = Append(@, w.tx)]
    [] w.kind = "likeAdd" ->
         [us EXCEPT ![w.uid].likedSongs = ArrayUnion(@, w.song)]
    [] w.kind = "likeSet" ->
         [us EXCEPT ![w.uid].likedSongs = w.list]
    [] w.kind = "friendAdd" ->
         [us EXCEPT ![w.uid].friends = @ \cup {w.friend}]
    [] w.kind = "premium" ->
         [us EXCEPT ![w.uid].isPremium = TRUE]
    [] OTHER -> us

\* addDoc(dedications, ...): the collection after the append.
ApplyAppend(ds, w) == IF w.kind = "dedication" THEN Append(ds, w.doc) ELSE ds

\* the playlist documents: one, created empty by CreatePlaylistModal (App.tsx:709)
PlaylistIds == {"p1"}
NoPlaylists == [p \in PlaylistIds |-> << >>]

\* updateDoc(playlists/pid, {songIds: arrayUnion(song.id)}): App.tsx:765
PlaylistAdd(pid, song) == [kind |-> "plAdd", pid |-> pid, song |-> song]

\* The playlists collection after the store has applied write w.
ApplyPlaylist(pl, w) ==
  IF w.kind = "plAdd" THEN [pl EXCEPT ![w.pid] = ArrayUnion(@, w.song)] ELSE pl

\* ================================================================ processTransaction
ProcessTransactionUnchecked(ud, amount, desc, type, clock) ==
  IF ud = NoData
    THEN [ret |-> "false", toast |-> "keep", w |-> NoWrite]
    ELSE [ret |-> "pending", toast |-> "keep",
          w |-> TxWrite(ud.uid, amount, desc, type, clock)]

\* processTransaction up to its await: App.tsx:178-192, part_000:206-224,
\* part_001:168-185.  ret "false" is the early return, "pending" the issued write.
ProcessTransactionStart(ud, amount, desc, type, clock) ==
  IF ud = NoData
    THEN [ret |-> "false", toast |-> "keep", w |-> NoWrite]
  ELSE IF type = "spend" /\ ud.coins < amount
    THEN [ret |-> "false", toast |-> "Insufficient coins!", w |-> NoWrite]
  ELSE [ret |-> "pending", toast |-> "keep",
        w |-> TxWrite(ud.uid, amount, desc, type, clock)]

\* processTransaction after its await: true when the write was acknowledged;
\* a rejected write is caught and gives false (App.tsx:194, part_000:226-229),
\* part_001:182-186 has no catch and the rejection propagates.
ProcessTransactionEnd(v, ok) ==
  IF ok THEN "true" ELSE IF v = "part_001" THEN "threw" ELSE "false"

\* ================================================================ async handlers
\* A handler in flight: the operation, where it is suspended, the userData its
\* closure captured, its argument (a user id), the song its closure captured, the
\* write it awaits and what its fetch gave.
Task(op, pc, ud, arg, song, w, fetch) ==
  [op |-> op, pc |-> pc, ud |-> ud, arg |-> arg, song |-> song, w |-> w, fetch |-> fetch]
NoTask == Task("none", "none", NoData, "none", NoSong, NoWrite, "none")

RemoveAt(seq, i) == [j \in 1..(Len(seq) - 1) |-> IF j < i THEN seq[j] ELSE seq[j + 1]]

\* the write the store settles next for client c: writes are acknowledged in the
\* order the client issued them
HasWrite(c) == \E i \in 1..Len(tasks[c]) : IsWrite(tasks[c][i].w)
FirstWrite(c) == CHOOSE i \in 1..Len(tasks[c]) :
                   /\ IsWrite(tasks[c][i].w)
                   /\ \A j \in 1..(i - 1) : ~IsWrite(tasks[c][j].w)

\* coin writes the clients have issued on user u and the store has not settled
PendingTx(u) ==
  Cardinality({<< c, i >> \in Clients \X (1..MaxTasks) :
                 /\ i <= Len(tasks[c])
                 /\ tasks[c][i].w.kind = "tx"
                 /\ tasks[c][i].w.uid = u})
\* handlers in flight that may still issue a coin write
MaySpend(c) ==
  Cardinality({i \in 1..Len(tasks[c]) : tasks[c][i].pc \in {"fetch", "save"}})
\* coin records the store took on user u in this run
NewRecords(u) ==
  Len(SelectSeq(users[u].coinHistory, LAMBDA tx : tx.desc \notin {"genesis", "earlier"}))
\* room left for a further coin write of the user client c spends for
HistoryRoom(c) ==
  IF userData[c] = NoData THEN TRUE
  ELSE NewRecords(userData[c].uid) + PendingTx(userData[c].uid) + MaySpend(c) < MaxSpends

\* Notices are named by the wording of App.tsx (of part_000 where App.tsx has
\* none); the versions word the same notice differently.
SetToast(old, new) == IF new = "keep" THEN old ELSE new

\* ================================================================ handlers: starts
finishVars == << now, userData, offline, inbox, users, dedications >>

\* the notice of handleDownload's catch: App.tsx:218, part_000:264, part_001:216
DownloadFailedToast(v) ==
  IF v = "part_001" THEN "Download failed." ELSE "Transmission interrupted."

DownloadNeverRefused(v, ud) == FALSE

\* handleDownload's guard: App.tsx:207, part_000:246, part_001:199
DownloadRefused(v, ud) == ~IsPremium(ud) /\ CoinsBelow(ud, DownloadCost(v))

\* handleDownload up to its first await: App.tsx:206-213, part_000:245-253,
\* part_001:198-205.  The button downloads the active track.
HandleDownload(c) ==
  LET ud == userData[c]
      song == currentSong[c]
      short == DownloadRefused(variant, ud)
  IN /\ user[c] # NoUser
     /\ song # NoSong
     /\ Len(tasks[c]) < MaxTasks
     /\ HistoryRoom(c)
     /\ toastMsg' = [toastMsg EXCEPT ![c] =
            IF short THEN "Premium or 5 coins required" ELSE "Transmitting to vault..."]
     /\ tasks' = [tasks EXCEPT ![c] =
            IF short THEN @
            ELSE Append(@, Task("download", "fetch", ud, "none", song, NoWrite, "none"))]
     /\ UNCHANGED << variant, user, listeners, playlists >>
     /\ UNCHANGED finishVars
     /\ UNCHANGED playVars

\* fetch(song.url) and response.blob() have settled: App.tsx:213-214,
\* part_000:253-255 (throws unless response.ok), part_001:206-207.
FetchThrows(v, outcome) ==
  outcome = "network_error" \/ (outcome = "http_error" /\ v = "part_000")

DownloadFetched(c, i, outcome) ==
  /\ i \in 1..Len(tasks[c])
  /\ tasks[c][i].op = "download" /\ tasks[c][i].pc = "fetch"
  /\ IF FetchThrows(variant, outcome)
     THEN /\ tasks' = [tasks EXCEPT ![c] = RemoveAt(@, i)]
          /\ toastMsg' = [toastMsg EXCEPT ![c] = DownloadFailedToast(variant)]
     ELSE /\ tasks' = [tasks EXCEPT ![c][i] = [@ EXCEPT !.pc = "save", !.fetch = outcome]]
          /\ UNCHANGED toastMsg
  /\ UNCHANGED << variant, user, listeners, playlists >>
  /\ UNCHANGED finishVars
  /\ UNCHANGED playVars

\* saveSongOffline has settled; on success the handler goes on to the debit:
\* App.tsx:215-218, part_000:256-265, part_001:208-216.
DownloadSaved(c, i, ok) ==
  /\ i \in 1..Len(tasks[c])
  /\ tasks[c][i].op = "download" /\ tasks[c][i].pc = "save"
  /\ LET t == tasks[c][i]
         pt == ProcessTransactionStart(t.ud, DownloadCost(variant), "download", "spend", now)
         payload == IF t.fetch = "ok" THEN "audio" ELSE "error_body"
     IN CASE ~ok ->
               /\ tasks' = [tasks EXCEPT ![c] = RemoveAt(@, i)]
               /\ toastMsg' = [toastMsg EXCEPT ![c] = DownloadFailedToast(variant)]
               /\ UNCHANGED offline
          [] ok /\ (IsPremium(t.ud) \/ pt.ret = "false") ->
               /\ offline' = [offline EXCEPT ![c][t.song] = payload]
               /\ tasks' = [tasks EXCEPT ![c] = RemoveAt(@, i)]
               /\ toastMsg' = [toastMsg EXCEPT ![c] = "Securely stored offline!"]
          [] OTHER ->
               /\ offline' = [offline EXCEPT ![c][t.song] = payload]
               /\ tasks' = [tasks EXCEPT ![c] =
                      Append(RemoveAt(@, i), [t EXCEPT !.pc = "debit", !.w = pt.w])]
               /\ UNCHANGED toastMsg
  /\ UNCHANGED << variant, user, listeners, playlists, now, userData, inbox, users, dedications >>
  /\ UNCHANGED playVars

DedicationToSender(ud, target, song, clock) ==
  [kind |-> "dedication",
   doc |-> [fromUid |-> ud.uid, toUid |-> ud.uid, songId |-> song, timestamp |-> clock]]

\* addDoc(collection(db, 'dedications'), {...}): App.tsx:371, part_000:454-462.
DedicationWrite(ud, target, song, clock) ==
  [kind |-> "dedication",
   doc |-> [fromUid |-> ud.uid, toUid |-> target, songId |-> song, timestamp |-> clock]]

\* DedicateModal's onSend up to its first await: App.tsx:368-369, part_000:451-452,
\* part_001:376-377.  The modal offers the friends of the loaded user record
\* (App.tsx:806-819) for the active track.
Send(c, target) ==
  LET ud == userData[c]
      pt == ProcessTransactionStart(ud, GiftCost, "gift", "spend", now)
  IN /\ user[c] # NoUser
     /\ currentSong[c] # NoSong
     /\ ud # NoData
     /\ target \in ud.friends
     /\ Len(tasks[c]) < MaxTasks
     /\ HistoryRoom(c)
     /\ toastMsg' = [toastMsg EXCEPT ![c] = SetToast(@, pt.toast)]
     /\ tasks' = [tasks EXCEPT ![c] =
            IF pt.ret = "false" THEN @
            ELSE Append(@, Task("send", "debit", ud, target, currentSong[c], pt.w, "none"))]
     /\ UNCHANGED << variant, user, listeners, playlists >>
     /\ UNCHANGED finishVars
     /\ UNCHANGED playVars

\* userData.likedSongs?.includes(songId)
Includes(arr, x) == \E i \in 1..Len(arr) : arr[i] = x

\* the write handleLike issues: App.tsx:199-202, part_000:234-238, part_001:191-194
LikeWrite(ud, song) ==
  IF Includes(ud.likedSongs, song)
    THEN [kind |-> "likeSet", uid |-> ud.uid, list |-> Without(ud.likedSongs, song)]
    ELSE [kind |-> "likeAdd", uid |-> ud.uid, song |-> song]

\* handleLike up to its await: App.tsx:197-202, part_000:232-238, part_001:189-194.
\* The heart button likes the active track; without a loaded record it returns.
HandleLike(c) ==
  LET ud == userData[c]
      song == currentSong[c]
  IN /\ user[c] # NoUser
     /\ song # NoSong
     /\ ud # NoData
     /\ Len(tasks[c]) < MaxTasks
     /\ tasks' = [tasks EXCEPT ![c] =
            Append(@, Task("like", "write", ud, "none", song, LikeWrite(ud, song), "none"))]
     /\ UNCHANGED << variant, user, listeners, playlists, toastMsg >>
     /\ UNCHANGED finishVars
     /\ UNCHANGED playVars

FriendAdd(uid, friend) == [kind |-> "friendAdd", uid |-> uid, friend |-> friend]

\* handleLink up to its first await: part_000:821-824, part_001:803-804.  The
\* search lists the users other than the loaded one (part_000:817); App.tsx has
\* no friend search.
HandleLink(c, u) ==
  LET ud == userData[c]
  IN /\ variant # "App"
     /\ user[c] # NoUser
     /\ ud # NoData
     /\ u # ud.uid
     /\ Len(tasks[c]) < MaxTasks
     /\ tasks' = [tasks EXCEPT ![c] =
            Append(@, Task("link", "w1", ud, u, NoSong, FriendAdd(ud.uid, u), "none"))]
     /\ UNCHANGED << variant, user, listeners, playlists, toastMsg >>
     /\ UNCHANGED finishVars
     /\ UNCHANGED playVars

\* onUpgrade up to its await: part_000:324, part_001:257.  The button shows while
\* the loaded record is not premium (part_000:853, part_001:735).
Upgrade(c) ==
  LET ud == userData[c]
      pt == ProcessTransactionStart(ud, UpgradeCost, "upgrade", "spend", now)
  IN /\ variant # "App"
     /\ user[c] # NoUser
     /\ ~IsPremium(ud)
     /\ Len(tasks[c]) < MaxTasks
     /\ HistoryRoom(c)
     /\ toastMsg' = [toastMsg EXCEPT ![c] = SetToast(@, pt.toast)]
     /\ tasks' = [tasks EXCEPT ![c] =
            IF pt.ret = "false" THEN @
            ELSE Append(@, Task("upgrade", "debit", ud, "none", NoSong, pt.w, "none"))]
     /\ UNCHANGED << variant, user, listeners, playlists >>
     /\ UNCHANGED finishVars
     /\ UNCHANGED playVars

\* applyPromo: App.tsx:599-608.  promo.toUpperCase() against the allow-list.
ValidCodes == {"VIPACCESS", "UNIVERSE", "COSMOS2025"}
PromoInputs == {"vipaccess", "UNIVERSE", "guess"}
ToUpperCase(str) ==
  CASE str = "vipaccess" -> "VIPACCESS"
    [] str = "guess" -> "GUESS"
    [] OTHER -> str

\* The promo form shows while the loaded record is not premium (App.tsx:652).
ApplyPromo(c, code) ==
  LET ud == userData[c]
  IN /\ variant = "App"
     /\ user[c] # NoUser
     /\ ud # NoData
     /\ ~ud.isPremium
     /\ Len(tasks[c]) < MaxTasks
     /\ IF ToUpperCase(code) \in ValidCodes
        THEN /\ tasks' = [tasks EXCEPT ![c] =
                    Append(@, Task("promo", "write", ud, "none", NoSong,
                                   [kind |-> "premium", uid |-> ud.uid], "none"))]
             /\ UNCHANGED toastMsg
        ELSE /\ toastMsg' = [toastMsg EXCEPT ![c] = "Frequency Key Invalid."]
             /\ UNCHANGED tasks
     /\ UNCHANGED << variant, user, listeners, playlists >>
     /\ UNCHANGED finishVars
     /\ UNCHANGED playVars

\* AddToPlaylistModal.add up to its getDoc: App.tsx:755-759.  The modal is shown
\* for the active track (App.tsx:367); only App.tsx has playlists.
AddToPlaylist(c, p) ==
  /\ variant = "App"
  /\ user[c] # NoUser
  /\ currentSong[c] # NoSong
  /\ Len(tasks[c]) < MaxTasks
  /\ tasks' = [tasks EXCEPT ![c] =
         Append(@, Task("addTrack", "get", NoData, p, currentSong[c], NoWrite, "none"))]
  /\ UNCHANGED << variant, user, listeners, playlists, toastMsg >>
  /\ UNCHANGED finishVars
  /\ UNCHANGED playVars

\* getDoc(pRef) has settled: App.tsx:759-765.  A track the document holds is
\* not added again; otherwise the handler goes on to the arrayUnion write.
PlaylistFetched(c, i, ok) ==
  /\ i \in 1..Len(tasks[c])
  /\ tasks[c][i].op = "addTrack" /\ tasks[c][i].pc = "get"
  /\ LET t == tasks[c][i]
     IN CASE ~ok ->
               /\ tasks' = [tasks EXCEPT ![c] = RemoveAt(@, i)]
               /\ toastMsg' = [toastMsg EXCEPT ![c] = "Sync failure."]
          [] ok /\ Includes(playlists[t.arg], t.song) ->
               /\ tasks' = [tasks EXCEPT ![c] = RemoveAt(@, i)]
               /\ toastMsg' = [toastMsg EXCEPT ![c] = "Signal already synced."]
          [] OTHER ->
               /\ tasks' = [tasks EXCEPT ![c] =
                      Append(RemoveAt(@, i),
                             [t EXCEPT !.pc = "write", !.w = PlaylistAdd(t.arg, t.song)])]
               /\ UNCHANGED toastMsg
  /\ UNCHANGED << variant, user, listeners, playlists >>
  /\ UNCHANGED finishVars
  /\ UNCHANGED playVars

\* ================================================================ handlers: continuations
\* What a suspended handler does when the write it awaits settles: the task it
\* goes on as (NoTask when it returns), the notice it sets and the value
\* processTransaction returned to it ("none" when the write was not a coin write).
Finish(toast, rt) == [next |-> NoTask, toast |-> toast, ret |-> rt]
GoOn(t, pc, w, rt) == [next |-> [t EXCEPT !.pc = pc, !.w = w], toast |-> "keep", ret |-> rt]

\* a rejected write of the friend link: caught by part_000:826, not by part_001
LinkFailed(v) == IF v = "part_000" THEN Finish("Link failed.", "none") ELSE Finish("keep", "none")

SettleLinkOneWrite(v, t, ok) ==
  IF ok THEN Finish("Linked!", "none") ELSE LinkFailed(v)

\* handleLink after each of its two awaits: part_000:823-827, part_001:804-806
SettleLink(v, t, ok) ==
  IF ~ok THEN LinkFailed(v)
  ELSE IF t.pc = "w1" THEN GoOn(t, "w2", FriendAdd(t.arg, t.ud.uid), "none")
  ELSE Finish("Linked!", "none")

SettleSendUngated(v, t, ok, clock) ==
  GoOn(t, "append", DedicationWrite(t.ud, t.arg, t.song, clock),
       ProcessTransactionEnd(v, ok))

\* onSend after processTransaction: the append follows only a true return.
\*   App.tsx:369-371, part_000:452-454, part_001:377-379
SettleSendDebit(v, t, ok, clock) ==
  IF ProcessTransactionEnd(v, ok) = "true"
    THEN GoOn(t, "append", DedicationWrite(t.ud, t.arg, t.song, clock), "true")
    ELSE Finish("keep", ProcessTransactionEnd(v, ok))

\* the notice of a completed like toggle: App.tsx:203, part_000:239, part_001:195
LikeNotice(t) ==
  IF Includes(t.ud.likedSongs, t.song) THEN "Removed from Likes" ELSE "Added to Universe"

SettleLikeOptimistic(v, t, ok) == Finish(LikeNotice(t), "none")

\* handleLike after its await: App.tsx:200-203, part_000:235-242 (catch),
\* part_001:192-195.  A rejected write skips the notice.
SettleLike(v, t, ok) ==
  IF ok THEN Finish(LikeNotice(t), "none")
  ELSE IF v = "part_000" THEN Finish("Action failed.", "none")
  ELSE Finish("keep", "none")

Settle(v, t, ok, clock) ==
  LET ret == ProcessTransactionEnd(v, ok)
  IN CASE t.op = "download" ->
            \* App.tsx:216-218, part_000:258-264, part_001:210-216
            IF ret = "threw" THEN Finish(DownloadFailedToast(v), ret)
                             ELSE Finish("Securely stored offline!", ret)
       [] t.op = "send" /\ t.pc = "debit" -> SettleSendDebit(v, t, ok, clock)
       [] t.op = "send" /\ t.pc = "append" ->
            \* App.tsx:372-373, part_000:463-464; a rejected addDoc is not caught
            IF ok THEN Finish("Sonic gift emitted!", "none") ELSE Finish("keep", "none")
       [] t.op = "like" -> SettleLike(v, t, ok)
       [] t.op = "link" -> SettleLink(v, t, ok)
       [] t.op = "upgrade" /\ t.pc = "debit" ->
            \* part_000:324-325, part_001:257-258
            IF ret = "true" THEN GoOn(t, "premium", [kind |-> "premium", uid |-> t.ud.uid], ret)
                            ELSE Finish("keep", ret)
       [] t.op = "upgrade" /\ t.pc = "premium" ->
            Finish("keep", "none")
       [] t.op = "addTrack" ->
            \* App.tsx:765-768
            IF ok THEN Finish("Signal synced to cluster!", "none")
                  ELSE Finish("Sync failure.", "none")
       [] OTHER ->
            \* applyPromo: App.tsx:603-605
            IF ok THEN Finish("Elite Access Sync Complete!", "none")
                  ELSE Finish("keep", "none")

\* The remote store acknowledges or rejects the oldest outstanding write of
\* client c; the awaiting handler runs on to its next await or to its end.
WriteSettled(c, ok) ==
  /\ HasWrite(c)
  /\ LET i == FirstWrite(c)
         t == tasks[c][i]
         r == Settle(variant, t, ok, now)
     IN /\ users' = IF ok THEN ApplyWrite(users, t.w) ELSE users
        /\ dedications' = IF ok THEN ApplyAppend(dedications, t.w) ELSE dedications
        /\ playlists' = IF ok THEN ApplyPlaylist(playlists, t.w) ELSE playlists
        /\ tasks' = [tasks EXCEPT ![c] =
               IF r.next.op = "none" THEN RemoveAt(@, i) ELSE Append(RemoveAt(@, i), r.next)]
        /\ toastMsg' = [toastMsg EXCEPT ![c] = SetToast(@, r.toast)]
  /\ UNCHANGED << variant, user, listeners, now, userData, offline, inbox >>
  /\ UNCHANGED playVars

\* ================================================================ subscriptions, clock
\* onSnapshot(doc(db, 'users', uid)) delivers the stored record:
\* App.tsx:124-144, part_000:142-157, part_001:125-139.
\* The callback writes userData whoever is signed in by then.
SnapshotPush(c) ==
  /\ \E u \in Users :
       /\ listeners[c][u] > 0
       /\ userData[c] # users[u]
       /\ userData' = [userData EXCEPT ![c] = users[u]]
  /\ UNCHANGED << variant, user, listeners, playlists, now, offline, inbox, tasks, users, dedications,
                  toastMsg >>
  /\ UNCHANGED playVars

\* query(collection(db, 'dedications'), where('toUid', '==', uid))
InboxQuery(ds, uid) == SelectSeq(ds, LAMBDA d : d.toUid = uid)

\* The dedication-inbox subscription of the profile screen delivers the query's
\* result: part_000:803-810, part_001:700-705.  App.tsx has no inbox.
InboxPush(c) ==
  /\ variant # "App"
  /\ user[c] # NoUser
  /\ userData[c] # NoData
  /\ inbox[c] # InboxQuery(dedications, userData[c].uid)
  /\ inbox' = [inbox EXCEPT ![c] = InboxQuery(dedications, userData[c].uid)]
  /\ UNCHANGED << variant, user, listeners, playlists, now, userData, offline, tasks, users, dedications,
                  toastMsg >>
  /\ UNCHANGED playVars

\* no subscription
NoListeners == [u \in Users |-> 0]
\* the subscription the auth callback opened for the signed-in user u
ListenerOf(u) == [w \in Users |-> IF w = u THEN 1 ELSE 0]

\* onAuthStateChanged with a user, after AuthScreen signed in: App.tsx:126-137,
\* part_000:144-150, part_001:127-133.  The function onSnapshot returns is
\* dropped.  The main view, with a new <audio> element, is rendered.
SignIn(c, u) ==
  /\ user[c] = NoUser
  /\ listeners[c][u] < MaxListeners
  /\ user' = [user EXCEPT ![c] = u]
  /\ listeners' = [listeners EXCEPT ![c][u] = @ + 1]
  /\ UNCHANGED << variant, now, userData, offline, inbox, tasks, users, dedications,
                  playlists, toastMsg >>
  /\ UNCHANGED playVars

\* signOut(auth) and onAuthStateChanged with null: App.tsx:619, 138-141,
\* part_000:858, 151-154, part_001:740, 134-137.  The main view is replaced by
\* AuthScreen (App.tsx:232): the <audio> element and the profile screen with
\* its inbox go; the state of the App component stays.
SignOut(c) ==
  /\ user[c] # NoUser
  /\ user' = [user EXCEPT ![c] = NoUser]
  /\ userData' = [userData EXCEPT ![c] = NoData]
  /\ audio' = [audio EXCEPT ![c] = NewAudio]
  /\ inbox' = [inbox EXCEPT ![c] = << >>]
  /\ playLog' = [playLog EXCEPT ![c] = << >>]
  /\ UNCHANGED << variant, now, listeners, offline, tasks, users, dedications, playlists,
                  toastMsg,
                  currentSong, isPlaying, mediaHandlers, lastPlayed >>

\* The store ends the subscriptions on a record whose user is no longer signed
\* in, where its access rules deny the read; onSnapshot has no error callback:
\* App.tsx:129-131.
ListenerCancelled(c, u) ==
  /\ listeners[c][u] > 0
  /\ user[c] # u
  /\ listeners' = [listeners EXCEPT ![c][u] = 0]
  /\ UNCHANGED << variant, now, user, userData, offline, inbox, tasks, users, dedications,
                  playlists, toastMsg >>
  /\ UNCHANGED playVars

\* Date.now() advances.
Tick ==
  /\ now < MaxClock
  /\ now' = now + 1
  /\ UNCHANGED << variant, user, listeners, playlists, userData, offline, inbox, tasks, users, dedications,
                  toastMsg >>
  /\ UNCHANGED playVars

\* ================================================================ specifications
\* The state every specification starts from, but for who is signed in: accounts
\* A and B exist as sign-up wrote them, nothing is in flight, and each client has
\* just started, with whatever its local storage kept from an earlier run.
InitCommon ==
  /\ variant \in Variants
  /\ now = 0
  /\ lastPlayed \in [Clients -> Tracks \cup {NoSong}]
  /\ currentSong = [c \in Clients |-> Restored(variant, lastPlayed[c])]
  /\ isPlaying = [c \in Clients |-> FALSE]
  /\ toastMsg = [c \in Clients |-> ""]
  /\ audio = [c \in Clients |-> NewAudio]
  /\ mediaHandlers = [c \in Clients |-> FALSE]
  /\ playLog = [c \in Clients |-> << >>]
  /\ offline = [c \in Clients |-> [t \in Tracks |-> "none"]]
  /\ inbox = [c \in Clients |-> << >>]
  /\ tasks = [c \in Clients |-> << >>]
  /\ users = [u \in Users |-> NewUser(u)]
  /\ dedications = << >>
  /\ playlists = NoPlaylists

\* The playback session of one signed-in client.
InitPlay ==
  /\ InitCommon
  /\ user = [c \in Clients |-> IF c = "c1" THEN "A" ELSE NoUser]
  /\ userData = [c \in Clients |-> IF c = "c1" THEN NewUser("A") ELSE NoData]
  /\ listeners = [c \in Clients |-> IF c = "c1" THEN ListenerOf("A") ELSE NoListeners]
  /\ lastPlayed["c2"] = NoSong

NextPlay ==
  \/ \E c \in Clients, song \in Tracks : HandlePlay(c, song)
  \/ \E c \in Clients : DeviceLoaded(c)
  \/ \E c \in Clients : DeviceLoadFailed(c)
  \/ \E c \in Clients : DeviceNoSource(c)
  \/ \E c \in Clients : DeviceEnded(c)
  \/ \E c \in Clients : MediaPlay(c)
  \/ \E c \in Clients : MediaPause(c)

SpecPlay == InitPlay /\ [][NextPlay]_vars

\* ---------------------------------------------------------------- coins
\* An account that sent `gifts` dedications in earlier sessions and has the
\* given friends.
Account(u, gifts, friends) ==
  [NewUser(u) EXCEPT
     !.coins = InitialCoins - gifts * GiftCost,
     !.friends = friends,
     !.coinHistory = << Genesis >> \o
                     [i \in 1..gifts |-> TxWrite(u, GiftCost, "earlier", "spend", 0).tx]]

\* the numbers of earlier gifts the sessions start from
PriorGifts == {0, 3, 4}

\* the element after a track was selected, loaded and paused
Selected(song) == [src |-> song, paused |-> TRUE, ready |-> "ready", pending |-> << >>]

\* the clients whose user presses buttons; the other session only listens
Actors == {"c1"}

\* A and B are signed in on one client each; each has selected track t1 and
\* paused it.  The first snapshot of A's record may not have arrived yet.
InitSignedIn(gifts, linked, loaded) ==
  /\ variant \in Variants
  /\ now = 0
  /\ user = [c \in Clients |-> IF c = "c1" THEN "A" ELSE "B"]
  /\ users = [u \in Users |-> Account(u, IF u = "A" THEN gifts ELSE 0,
                                      IF linked THEN Users \ {u} ELSE {})]
  /\ userData = [c \in Clients |-> IF c = "c1" /\ ~loaded THEN NoData ELSE users[user[c]]]
  /\ listeners = [c \in Clients |-> ListenerOf(user[c])]
  /\ lastPlayed = [c \in Clients |-> "t1"]
  /\ currentSong = lastPlayed
  /\ isPlaying = [c \in Clients |-> FALSE]
  /\ toastMsg = [c \in Clients |-> ""]
  /\ audio = [c \in Clients |-> Selected("t1")]
  /\ mediaHandlers = [c \in Clients |-> TRUE]
  /\ playLog = [c \in Clients |-> << >>]
  /\ offline = [c \in Clients |-> [t \in Tracks |-> "none"]]
  /\ inbox = [c \in Clients |-> << >>]
  /\ tasks = [c \in Clients |-> << >>]
  /\ dedications = << >>
  /\ playlists = NoPlaylists

InitCoins == \E gifts \in PriorGifts, loaded \in BOOLEAN : InitSignedIn(gifts, TRUE, loaded)

FetchOutcomes == {"ok", "http_error", "network_error"}

NextCoins ==
  \/ \E c \in Clients : SnapshotPush(c)
  \/ \E c \in Clients : InboxPush(c)
  \/ \E c \in Clients, ok \in BOOLEAN : WriteSettled(c, ok)
  \/ \E c \in Actors : HandleDownload(c)
  \/ \E c \in Actors, i \in 1..MaxTasks, o \in FetchOutcomes : DownloadFetched(c, i, o)
  \/ \E c \in Actors, i \in 1..MaxTasks, ok \in BOOLEAN : DownloadSaved(c, i, ok)
  \/ \E c \in Actors, u \in Users : Send(c, u)
  \/ \E c \in Actors : Upgrade(c)

SpecCoins == InitCoins /\ [][NextCoins]_vars

\* ---------------------------------------------------------------- coins, with the clock
\* The coin handlers while the wall clock advances, from an account with 10 coins left.
InitClock == InitSignedIn(2, TRUE, TRUE)

NextClock == Tick \/ NextCoins

SpecClock == InitClock /\ [][NextClock]_vars

\* ---------------------------------------------------------------- likes, friends
InitSocial == \E loaded \in BOOLEAN : InitSignedIn(0, FALSE, loaded)

NextSocial ==
  \/ \E c \in Clients : SnapshotPush(c)
  \/ \E c \in Clients, ok \in BOOLEAN : WriteSettled(c, ok)
  \/ \E c \in Actors : HandleLike(c)
  \/ \E c \in Actors, u \in Users : HandleLink(c, u)
  \/ \E c \in Actors, code \in PromoInputs : ApplyPromo(c, code)

SpecSocial == InitSocial /\ [][NextSocial]_vars

\* ---------------------------------------------------------------- sign-in, sign-out
\* Clients that start signed out; the user of c1 signs in and out.
InitAuth ==
  /\ InitCommon
  /\ user = [c \in Clients |-> NoUser]
  /\ userData = [c \in Clients |-> NoData]
  /\ listeners = [c \in Clients |-> NoListeners]
  /\ lastPlayed["c2"] = NoSong

NextAuth ==
  \/ \E c \in Actors, u \in Users : SignIn(c, u)
  \/ \E c \in Actors : SignOut(c)
  \/ \E c \in Clients : SnapshotPush(c)
  \/ \E c \in Clients, u \in Users : ListenerCancelled(c, u)

SpecAuth == InitAuth /\ [][NextAuth]_vars

\* ---------------------------------------------------------------- liked-set and playlist
\* One session that likes the active track and adds it to the playlist.
InitSets == InitSignedIn(0, FALSE, TRUE)

NextSets ==
  \/ \E c \in Clients : SnapshotPush(c)
  \/ \E c \in Clients, ok \in BOOLEAN : WriteSettled(c, ok)
  \/ \E c \in Actors : HandleLike(c)
  \/ \E c \in Actors, p \in PlaylistIds : AddToPlaylist(c, p)
  \/ \E c \in Actors, i \in 1..MaxTasks, ok \in BOOLEAN : PlaylistFetched(c, i, ok)

SpecSets == InitSets /\ [][NextSets]_vars

\* ---------------------------------------------------------------- likes across tracks
\* One session that selects tracks and likes the active one.
InitLikes == InitSignedIn(0, FALSE, TRUE)

NextLikes ==
  \/ \E c \in Clients : SnapshotPush(c)
  \/ \E c \in Clients, ok \in BOOLEAN : WriteSettled(c, ok)
  \/ \E c \in Actors : HandleLike(c)
  \/ \E c \in Actors, song \in Tracks : HandlePlay(c, song)

SpecLikes == InitLikes /\ [][NextLikes]_vars

\* ================================================================ claims: playback
\* The tracks in Playing state: the active track while the play/pause flag is
\* set, and the track the device is audibly playing.
PlayingTracks(c) ==
  {t \in Tracks : \/ currentSong[c] = t /\ isPlaying[c]
                  \/ audio[c].src = t /\ DevicePlaying(audio[c])}

\* C1: at every instant at most one track is active and Playing: the flag and the
\* device never hold two different tracks in Playing state.
C1_AtMostOnePlaying == \A c \in Clients : Cardinality(PlayingTracks(c)) <= 1

\* C1 witness: a second, different track was selected and is playing on the device.
C1_Witness ==
  \E c \in Clients :
    /\ isPlaying[c] /\ DevicePlaying(audio[c])
    /\ Len(playLog[c]) >= 2
    /\ playLog[c][Len(playLog[c])].song # playLog[c][Len(playLog[c]) - 1].song

\* Three consecutive handlePlay calls on one track that was not active before the
\* first, with no other user action and no device failure or end in between.
ThreeCalls(c) ==
  /\ Len(playLog[c]) = 3
  /\ ~playLog[c][1].active
  /\ playLog[c][2].song = playLog[c][1].song /\ playLog[c][3].song = playLog[c][1].song

\* Playing (or on the way to it: Loading), then Paused, then Playing.
ToggleOutcome(c) ==
  /\ playLog[c][1].st \in {"Playing", "Loading"}
  /\ playLog[c][2].st = "Paused"
  /\ playLog[c][3].st = "Playing"

\* C8 as stated: three consecutive play(T) calls leave Playing, Paused, Playing
\* whenever the device reports the start.
C8_Original == \A c \in Clients : ThreeCalls(c) => ToggleOutcome(c)

\* ================================================================ claims: coins
\* C2: in every reachable state of the remote ledger every user's coin balance
\* is at least 0.
C2_Original == \A u \in Users : users[u].coins >= 0

\* the local copy ud does not cover a spend of amount
CannotAfford(ud, amount) == ud = NoData \/ ud.coins < amount

\* processTransaction's early return for a spend: failure, and nothing handed to the store
RejectedEarly(ud, amount) ==
  LET pt == ProcessTransactionStart(ud, amount, "any", "spend", now)
  IN pt.ret = "false" /\ ~IsWrite(pt.w)

\* C3: a spend through processTransaction whose amount exceeds the balance of
\* the local copy of the user record, or that finds no record loaded, returns
\* failure and issues no write: the remote balance and history stay as they
\* are and no handler is left awaiting a write.  The three call sites are the
\* dedication send, the upgrade and the download after its cache write.
C3_SpendRejected ==
  [][\A c \in Clients :
       /\ \A u \in Users :
            (Send(c, u) /\ CannotAfford(userData[c], GiftCost))
              => (RejectedEarly(userData[c], GiftCost) /\ UNCHANGED << users, dedications, tasks >>)
       /\ (Upgrade(c) /\ CannotAfford(userData[c], UpgradeCost))
              => (RejectedEarly(userData[c], UpgradeCost)
                  /\ UNCHANGED << users, dedications, tasks >>)
       /\ \A i \in 1..MaxTasks :
            (/\ DownloadSaved(c, i, TRUE)
             /\ ~IsPremium(tasks[c][i].ud)
             /\ CannotAfford(tasks[c][i].ud, DownloadCost(variant)))
              => (/\ RejectedEarly(tasks[c][i].ud, DownloadCost(variant))
                  /\ tasks'[c] = RemoveAt(tasks[c], i)
                  /\ UNCHANGED << users, dedications >>)
  ]_vars

\* a spend was refused on a loaded record, and another without any record
C3_Witness ==
  /\ userData["c1"] # NoData
  /\ userData["c1"].coins < GiftCost
  /\ toastMsg["c1"] = "Insufficient coins!"
  /\ tasks["c1"] = << >>
  /\ users["A"].coins = userData["c1"].coins

Monotone(h) == \A i \in 1..(Len(h) - 1) : h[i].timestamp <= h[i + 1].timestamp

\* the amount the handler of task t hands to processTransaction
CallAmount(v, t) ==
  CASE t.op = "download" -> DownloadCost(v)
    [] t.op = "send" -> GiftCost
    [] OTHER -> UpgradeCost

\* the oldest outstanding write of client c is a coin write
CoinWriteNext(c) == HasWrite(c) /\ tasks[c][FirstWrite(c)].w.kind = "tx"

DownloadDebitNext(c) == HasWrite(c) /\ tasks[c][FirstWrite(c)].op = "download"

\* C5: a download at cost 5 by a non-premium user whose local copy holds at
\* least 5 coins, of a stream that was fetched, ends with the balance 5 lower,
\* exactly one new spend record of amount 5 and a cache entry under the track id.
C5_Original ==
  [][\A c \in Clients :
       (/\ DownloadDebitNext(c)
        /\ \E ok \in BOOLEAN : WriteSettled(c, ok)
        /\ DownloadCost(variant) = 5
        /\ tasks[c][FirstWrite(c)].fetch = "ok"
        /\ ~tasks[c][FirstWrite(c)].ud.isPremium
        /\ tasks[c][FirstWrite(c)].ud.coins >= 5) =>
          LET t == tasks[c][FirstWrite(c)]
              u == t.ud.uid
              h2 == users'[u].coinHistory
          IN /\ users'[u].coins = users[u].coins - 5
             /\ h2 = Append(users[u].coinHistory, h2[Len(h2)])
             /\ h2[Len(h2)].type = "spend"
             /\ h2[Len(h2)].amount = 5
             /\ offline'[c][t.song] = "audio"
  ]_vars

\* the notice of handleDownload's guard
RefusedNotice == "Premium or 5 coins required"

SendNext(c, pc) ==
  /\ HasWrite(c)
  /\ tasks[c][FirstWrite(c)].op = "send"
  /\ tasks[c][FirstWrite(c)].pc = pc

C9_Original ==
  \A c \in Clients :
    \A i \in 1..Len(tasks[c]), j \in 1..Len(tasks[c]) :
      (i < j /\ tasks[c][i].op = "like" /\ tasks[c][j].op = "like"
         /\ tasks[c][i].song = tasks[c][j].song
         /\ Cardinality({k \in 1..Len(tasks[c]) : tasks[c][k].op = "like"}) = 2)
        => LET u == tasks[c][i].w.uid
               after == ApplyWrite(ApplyWrite(users, tasks[c][i].w), tasks[c][j].w)
           IN Includes(after[u].likedSongs, tasks[c][i].song)
                = Includes(users[u].likedSongs, tasks[c][i].song)

\* the oldest outstanding write of client c belongs to a friend link
LinkNext(c) == HasWrite(c) /\ tasks[c][FirstWrite(c)].op = "link"

\* C10: the step of a friend link that sets the 'linked' notice is the
\* acknowledgement of its second write, and after it each of the two users is
\* in the other's friend set; a step of a friend link on a rejected write does
\* not set the notice.
C10_LinkBothWays ==
  [][\A c \in Clients, ok \in BOOLEAN :
       (WriteSettled(c, ok) /\ LinkNext(c)) =>
          LET t == tasks[c][FirstWrite(c)]
              shown == Settle(variant, t, ok, now).toast = "Linked!"
          IN /\ shown => /\ ok
                         /\ t.pc = "w2"
                         /\ t.arg \in users'[t.ud.uid].friends
                         /\ t.ud.uid \in users'[t.arg].friends
             /\ (toastMsg'[c] = "Linked!" /\ toastMsg[c] # "Linked!") => shown
             /\ ~ok => ~shown
  ]_vars

\* A linked B: the notice is up and both friend sets hold the other
C10_Witness ==
  /\ toastMsg["c1"] = "Linked!"
  /\ "B" \in users["A"].friends
  /\ "A" \in users["B"].friends
  /\ tasks["c1"] = << >>

\* ================================================================ claims: friends, dedications
\* C11: in every reachable state of the remote store, whenever one user is in
\* another's friend set the other is in the first one's.
C11_Original ==
  \A a \in Users, b \in Users : a \in users[b].friends => b \in users[a].friends

\* dedications in the collection that user u sent
SentBy(u) == Len(SelectSeq(dedications, LAMBDA d : d.fromUid = u))
\* gift spends the store recorded for user u in this run
GiftRecords(u) == Len(SelectSeq(users[u].coinHistory, LAMBDA tx : tx.desc = "gift"))

\* C12: a user never has more dedications in the collection than gift spends
\* in the coin history, and a debit of a dedication send that is rejected
\* appends no dedication and leaves no append to come.
C12_DedicationAfterDebit ==
  /\ [](\A u \in Users : SentBy(u) <= GiftRecords(u))
  /\ [][\A c \in Clients :
          /\ (WriteSettled(c, FALSE) /\ SendNext(c, "debit")) =>
                /\ dedications' = dedications
                /\ users' = users
                /\ tasks'[c] = RemoveAt(tasks[c], FirstWrite(c))
          /\ ((\E target \in Users : Send(c, target))
                 /\ CannotAfford(userData[c], GiftCost)) =>
                /\ dedications' = dedications
                /\ users' = users
                /\ tasks' = tasks
     ]_vars

\* one send went through, debit then append, and the next one was refused
\* for want of coins
C12_Witness ==
  /\ SentBy("A") = 1
  /\ GiftRecords("A") = 1
  /\ tasks["c1"] = << >>
  /\ userData["c1"] = users["A"]
  /\ users["A"].coins < GiftCost
  /\ toastMsg["c1"] = ProcessTransactionStart(userData["c1"], GiftCost, "gift", "spend", now).toast

\* ================================================================ claims: start failures
\* the notices the versions show for a playback failure:
\*   part_000:183, part_000:198, part_000:299
FailureNotices ==
  {"Stream unavailable.", "Playback error. Check connection.", "Audio stream error."}

\* C13: when the device reports that the source could not be loaded while a
\* start request of handlePlay, for a new track or for a resume, is pending,
\* the session is left not playing and a failure notice is shown.
C13_Original ==
  [][\A c \in Clients :
       (/\ DeviceLoadFailed(c)
        /\ \E i \in 1..Len(audio[c].pending) : audio[c].pending[i] \in {"new", "resume"})
         => (~isPlaying'[c] /\ toastMsg'[c] \in FailureNotices)
  ]_vars

\* C14: once no start request is pending, the displayed flag is true exactly
\* when the device is playing the active track.
C14_Original ==
  \A c \in Clients :
     (user[c] # NoUser /\ audio[c].pending = << >>) =>
        (isPlaying[c] <=> (DevicePlaying(audio[c]) /\ audio[c].src = currentSong[c]))

\* ================================================================ claims: concurrent spends
\* C15: a spend is checked against the copy of the user record the client
\* holds and debited without a check at the store.  A dedication send whose
\* local copy covers the cost is issued also while an earlier spend of the same
\* user is still unacknowledged, and a spend that is acknowledged after the
\* remote balance has fallen below its amount had passed the check on its own
\* copy and is debited all the same, to a balance below zero.
C15_StaleCheck ==
  [][\A c \in Clients :
       /\ ((\E target \in Users : Send(c, target))
             /\ ~CannotAfford(userData[c], GiftCost)
             /\ PendingTx(userData[c].uid) > 0) =>
            /\ Len(tasks'[c]) = Len(tasks[c]) + 1
            /\ tasks'[c][Len(tasks'[c])].w.kind = "tx"
            /\ tasks'[c][Len(tasks'[c])].w.delta = 0 - GiftCost
       /\ (WriteSettled(c, TRUE) /\ CoinWriteNext(c)
             /\ users[tasks[c][FirstWrite(c)].w.uid].coins
                  < CallAmount(variant, tasks[c][FirstWrite(c)])) =>
            LET t == tasks[c][FirstWrite(c)]
                u == t.w.uid
                a == CallAmount(variant, t)
            IN /\ t.ud.coins >= a
               /\ users'[u].coins = users[u].coins - a
               /\ users'[u].coins < 0
  ]_vars

\* two spends were debited on A's account while the client's copy still shows
\* the balance both were checked against
C15_Witness ==
  /\ NewRecords("A") = 2
  /\ users["A"].coins < 0
  /\ userData["c1"] # NoData
  /\ userData["c1"].coins >= GiftCost
  /\ userData["c1"].coins < 2 * GiftCost

\* ================================================================ claims: racing starts
\* The last two handlePlay calls of client c selected two different tracks, the
\* second while a start request was still pending, and no device failure, end of
\* track or media-session action came after the first.
Raced(c) ==
  /\ Len(playLog[c]) >= 2
  /\ ~playLog[c][Len(playLog[c])].active
  /\ playLog[c][Len(playLog[c])].pendingBefore
  /\ ~playLog[c][Len(playLog[c]) - 1].active
  /\ playLog[c][Len(playLog[c]) - 1].song # playLog[c][Len(playLog[c])].song

\* C16: after play(A) and then play(B) for a different track B before A's
\* start request settled, the active track and the device source are B, and
\* once no start request is pending and the device has loaded B the session is
\* Playing, with the device playing B: the callbacks of A's request, which
\* B's load rejects, do not change that.
C16_LaterCallWins ==
  \A c \in Clients :
     Raced(c) =>
       /\ currentSong[c] = playLog[c][Len(playLog[c])].song
       /\ audio[c].src = currentSong[c]
       /\ (audio[c].pending = << >> /\ audio[c].ready = "ready") =>
            (isPlaying[c] /\ DevicePlaying(audio[c]))

\* B plays after the race; the notice is the one the catch of A's rejected
\* request left (part_000)
C16_Witness ==
  /\ Raced("c1")
  /\ variant = "part_000"
  /\ audio["c1"].pending = << >>
  /\ DevicePlaying(audio["c1"])
  /\ isPlaying["c1"]
  /\ toastMsg["c1"] = "Stream unavailable."

\* ================================================================ claims: download failures
StoredNotice == "Securely stored offline!"

\* C17: a download of a non-premium user whose debit did not return success,
\* because the write was rejected or because processTransaction refused at
\* once, does not show the stored-offline notice.
C17_Original ==
  [][\A c \in Clients :
       /\ (DownloadDebitNext(c) /\ WriteSettled(c, FALSE)) =>
            toastMsg'[c] # StoredNotice
       /\ \A i \in 1..MaxTasks :
            (/\ DownloadSaved(c, i, TRUE)
             /\ ~IsPremium(tasks[c][i].ud)
             /\ RejectedEarly(tasks[c][i].ud, DownloadCost(variant))) =>
               toastMsg'[c] # StoredNotice
  ]_vars

\* C18: when the fetch of the audio fails, by a network error or by a
\* non-success HTTP response, the handler ends there: nothing is written to the
\* offline cache, no coin write is issued and the failure notice is shown.
\* So no cache entry ever holds the body of an error response.
C18_Original ==
  /\ [](\A c \in Clients : \A t \in Tracks : offline[c][t] # "error_body")
  /\ [][\A c \in Clients : \A i \in 1..MaxTasks :
          \A outcome \in {"network_error", "http_error"} :
             DownloadFetched(c, i, outcome) =>
                /\ toastMsg'[c] = DownloadFailedToast(variant)
                /\ Len(tasks'[c]) = Len(tasks[c]) - 1
                /\ offline' = offline
                /\ users' = users
     ]_vars

\* ================================================================ claims: rejected writes
\* C19: whenever the remote store rejects a write, the handler that awaits it
\* catches the rejection and sets a notice.
C19_Original ==
  [][\A c \in Clients :
       WriteSettled(c, FALSE) =>
          Settle(variant, tasks[c][FirstWrite(c)], FALSE, now).toast # "keep"
  ]_vars

\* the oldest outstanding write of client c belongs to a like toggle
LikeNext(c) == HasWrite(c) /\ tasks[c][FirstWrite(c)].op = "like"

SuccessNotices == {"Added to Universe", "Removed from Likes"}

\* C20: when the write of a like toggle is rejected, the handler sets no
\* success notice (the notice stays as it was, or becomes the failure notice
\* of part_000) and the remote user records, the liked-set with them, stay as
\* they are.
C20_LikeFailure ==
  [][\A c \in Clients :
       (WriteSettled(c, FALSE) /\ LikeNext(c)) =>
          /\ Settle(variant, tasks[c][FirstWrite(c)], FALSE, now).toast \notin SuccessNotices
          /\ toastMsg'[c] \in {toastMsg[c], "Action failed."}
          /\ users' = users
  ]_vars

\* a like of A was rejected: the failure notice of part_000, nothing liked
C20_Witness ==
  /\ toastMsg["c1"] = "Action failed."
  /\ tasks["c1"] = << >>
  /\ users["A"].likedSongs = << >>

\* ================================================================ claims: liked-set
\* C21: an acknowledged write of a like toggle on a track leaves every other
\* track that was in the remote liked-set just before the write in it.
C21_Original ==
  [][\A c \in Clients :
       (WriteSettled(c, TRUE) /\ LikeNext(c)) =>
          LET t == tasks[c][FirstWrite(c)]
          IN \A other \in Tracks \ {t.song} :
                Includes(users[t.w.uid].likedSongs, other)
                  => Includes(users'[t.w.uid].likedSongs, other)
  ]_vars

\* ================================================================ claims: subscriptions
\* C22: every active user-record subscription of a client is one of the user
\* signed in on it, and there is at most one: none survives the sign-out and
\* sign-in/sign-out cycles do not pile them up.
C22_Original ==
  \A c \in Clients : \A u \in Users :
     /\ listeners[c][u] <= 1
     /\ listeners[c][u] > 0 => user[c] = u

\* C29: whenever a user is signed in and a user record is cached, the record
\* is the signed-in user's.
C29_Original ==
  \A c \in Clients :
     (user[c] # NoUser /\ userData[c] # NoData) => userData[c].uid = user[c]

\* ================================================================ claims: last played
\* C23: the persisted last-played key and the active track agree: the active
\* track starts as the persisted one when there is one, and every handlePlay
\* that changes the active track persists it.
C23_Original ==
  \A c \in Clients : lastPlayed[c] # NoSong => currentSong[c] = lastPlayed[c]

\* ================================================================ claims: end of track
\* nothing plays, nothing is about to: the flag is off, the element is paused
\* and no start request is pending
Idle(c) == ~isPlaying[c] /\ audio[c].paused /\ audio[c].pending = << >>

\* C24: the end of the track leaves the session idle on the same track, and an
\* idle session starts playing, or changes its track, only by a handlePlay
\* call or the media-session play control: the device events alone never do.
C24_NoAutoAdvance ==
  [][\A c \in Clients :
       /\ DeviceEnded(c) =>
            /\ Idle(c)'
            /\ currentSong'[c] = currentSong[c]
            /\ audio'[c].src = audio[c].src
       /\ (Idle(c) /\ (~Idle(c)' \/ currentSong'[c] # currentSong[c]
                         \/ audio'[c].src # audio[c].src)) =>
            ((\E song \in Tracks : HandlePlay(c, song)) \/ MediaPlay(c))
  ]_vars

\* a track that had been started has ended: flag off, element paused on it
C24_Witness ==
  /\ Idle("c1")
  /\ audio["c1"].ready = "ready"
  /\ audio["c1"].src = currentSong["c1"]
  /\ currentSong["c1"] # NoSong
  /\ playLog["c1"] = << >>
  /\ mediaHandlers["c1"]

\* ================================================================ claims: the coin history
\* h is the beginning of h2
IsPrefix(h, h2) == Len(h) <= Len(h2) /\ SubSeq(h2, 1, Len(h)) = h

\* C25: every step leaves each user's coin history as it was or longer at the
\* end: the records it held are all still there, in place and unmodified.
C25_AppendOnly ==
  [][\A u \in Users : IsPrefix(users[u].coinHistory, users'[u].coinHistory)]_vars

\* two spends were appended behind the sign-up record and three earlier ones
C25_Witness ==
  /\ Len(users["A"].coinHistory) = 6
  /\ users["A"].coinHistory[1] = Genesis
  /\ NewRecords("A") = 2

\* earn amounts minus spend amounts over a history
RECURSIVE Net(_)
Net(h) ==
  IF h = << >> THEN 0
  ELSE (IF Head(h).type = "earn" THEN Head(h).amount ELSE 0 - Head(h).amount) + Net(Tail(h))

\* C28: every user's remote balance is the sum of the earn amounts minus the
\* sum of the spend amounts of the user's coin history.
C28_BalanceIsNet ==
  \A u \in Users : users[u].coins = Net(users[u].coinHistory)

\* a download and a dedication were debited on a fresh account
C28_Witness ==
  /\ users["A"].coins = InitialCoins - GiftCost - DownloadCost(variant)
  /\ Len(users["A"].coinHistory) = 3
  /\ users["A"].coinHistory[1].type = "earn"

\* ================================================================ claims: idempotent sets
\* no element occurs twice in arr
NoDuplicate(arr) == \A i \in 1..Len(arr), j \in 1..Len(arr) : arr[i] = arr[j] => i = j

\* the oldest outstanding write of client c adds a track that the set it goes
\* to already holds
AddsPresent(c) ==
  /\ HasWrite(c)
  /\ LET w == tasks[c][FirstWrite(c)].w
     IN \/ w.kind = "plAdd" /\ Includes(playlists[w.pid], w.song)
        \/ w.kind = "likeAdd" /\ Includes(users[w.uid].likedSongs, w.song)

\* C26: no liked-set and no playlist ever holds a track id twice, and an
\* acknowledged add of an id the set already holds leaves both as they are.
C26_NoDuplicates ==
  /\ [](/\ \A u \in Users : NoDuplicate(users[u].likedSongs)
        /\ \A p \in PlaylistIds : NoDuplicate(playlists[p]))
  /\ [][\A c \in Clients :
          (WriteSettled(c, TRUE) /\ AddsPresent(c)) =>
             (users' = users /\ playlists' = playlists)
     ]_vars

\* the track is in both sets once, and the last add found it there
C26_Witness ==
  /\ playlists["p1"] = << "t1" >>
  /\ users["A"].likedSongs = << "t1" >>
  /\ toastMsg["c1"] = "Signal already synced."
  /\ tasks["c1"] = << >>

\* ================================================================ claims: outcome of a start
\* The last user action of client c was a handlePlay call that selected a new
\* track, and its start request is still pending.
StartPending(c) ==
  /\ Len(playLog[c]) >= 1
  /\ ~playLog[c][Len(playLog[c])].active
  /\ playLog[c][Len(playLog[c])].song = currentSong[c]
  /\ \E i \in 1..Len(audio[c].pending) : audio[c].pending[i] = "new"

\* C27: when the device reports the outcome of the start request of a newly
\* selected track and no user action came in between, a success leaves the
\* session Playing with that track on the device and a failure leaves it not
\* Playing; in both cases no start request stays pending.
C27_Original ==
  [][\A c \in Clients :
       /\ (StartPending(c) /\ DeviceLoaded(c)) =>
            /\ isPlaying'[c]
            /\ DevicePlaying(audio'[c])
            /\ audio'[c].src = currentSong[c]
            /\ audio'[c].pending = << >>
       /\ (StartPending(c) /\ DeviceLoadFailed(c)) =>
            /\ ~isPlaying'[c]
            /\ audio'[c].pending = << >>
  ]_vars

\* ================================================================ claims: the bound source
\* C30: whenever there is an active track and the play/pause flag is set, the
\* source bound to the audio element is the active track's stream.
C30_Original ==
  \A c \in Clients :
     (currentSong[c] # NoSong /\ isPlaying[c]) => audio[c].src = currentSong[c]

====
